---- MODULE Spec2Model ----
(***************************************************************************)
(* Model of the services layer of the dashboard template:                  *)
(*   src/services/utils.ts       buildUrlWithParams                        *)
(*   src/services/api-client.ts  createApiClient, apiClient, apiFetch      *)
(*   src/services/dashboard.ts   getReport                                 *)
(*   src/services/models.ts      querySource, getModelById, executeModel   *)
(*                                                                         *)
(* URLs and query strings are sequences of one-character strings, so that  *)
(* percent-encoding is modelled character by character.  Header values,    *)
(* titles and SQL texts, which the code only copies or concatenates, are   *)
(* plain strings.                                                          *)
(***************************************************************************)
EXTENDS Naturals, Sequences, FiniteSets, TLC

VARIABLES
    env,        \* process-wide configuration read by the request interceptor
    apiClient,  \* the shared axios instance (its construction-time config)
    calls,      \* apiFetch calls: the request sent and the promise's outcome
    invs,       \* invocations of the exported endpoint functions
    bUrl,       \* buildUrlWithParams: the url argument
    bParams,    \* buildUrlWithParams: the params argument (entries in order)
    bResult,    \* buildUrlWithParams: the returned string
    bPc         \* "input" before the call, "done" after it

vars == <<env, apiClient, calls, invs, bUrl, bParams, bResult, bPc>>
httpVars == <<env, apiClient, calls, invs>>
urlVars == <<bUrl, bParams, bResult, bPc>>

\* ------------------------------------------------------------------ bounds

\* Largest number of entries of a params mapping.
MaxParams == 2
\* Largest number of endpoint-function invocations in one behaviour.
MaxInvocations == 2

\* ------------------------------------------------------ JavaScript values

Undefined == [t |-> "undefined"]
Null == [t |-> "null"]
Str(s) == [t |-> "string", v |-> s]
Num(n) == [t |-> "number", v |-> n]
Bool(b) == [t |-> "boolean", v |-> b]
Arr(items) == [t |-> "array", v |-> items]

DigitChars == <<"0", "1", "2", "3", "4", "5", "6", "7", "8", "9">>

\* String(n) for a non-negative integer n: its decimal digits.
RECURSIVE NumToString(_)
NumToString(n) ==
    IF n < 10 THEN <<DigitChars[n + 1]>>
    ELSE NumToString(n \div 10) \o <<DigitChars[(n % 10) + 1]>>

\* String(value) as buildUrlWithParams applies it to scalars and array items.
String(value) ==
    CASE value.t = "string" -> value.v
      [] value.t = "number" -> NumToString(value.v)
      [] value.t = "boolean" ->
            IF value.v THEN <<"t", "r", "u", "e">> ELSE <<"f", "a", "l", "s", "e">>

\* ------------------------------------------ URLSearchParams serialisation

\* Characters the application/x-www-form-urlencoded serialiser leaves alone.
Unreserved ==
    {"a", "b", "c", "d", "e", "f", "g", "h", "i", "j", "k", "l", "m", "n", "o",
     "p", "q", "r", "s", "t", "u", "v", "w", "x", "y", "z",
     "0", "1", "2", "3", "4", "5", "6", "7", "8", "9", "*", "-", ".", "_"}

\* The two hexadecimal digits of the byte of a reserved character.
HexOf(c) ==
    CASE c = "[" -> <<"5", "B">>
      [] c = "]" -> <<"5", "D">>
      [] c = "&" -> <<"2", "6">>
      [] c = "=" -> <<"3", "D">>
      [] c = "+" -> <<"2", "B">>
      [] c = "%" -> <<"2", "5">>
      [] c = "?" -> <<"3", "F">>
      [] c = "/" -> <<"2", "F">>
      [] c = "," -> <<"2", "C">>

Reserved == {"[", "]", "&", "=", "+", "%", "?", "/", ","}

\* One character as URLSearchParams.toString() writes it.
EncodeCharLiteral(c) == IF c = " " THEN <<"+">> ELSE <<c>>

EncodeChar(c) ==
    IF c \in Unreserved THEN <<c>>
    ELSE IF c = " " THEN <<"+">>
    ELSE <<"%">> \o HexOf(c)

RECURSIVE EncodeComponent(_)
EncodeComponent(s) ==
    IF s = <<>> THEN <<>>
    ELSE EncodeChar(Head(s)) \o EncodeComponent(Tail(s))

\* URLSearchParams.toString(): name=value pairs joined by "&".
RECURSIVE SearchParamsToString(_)
SearchParamsToString(pairs) ==
    IF pairs = <<>> THEN <<>>
    ELSE LET p == Head(pairs)
             one == EncodeComponent(p[1]) \o <<"=">> \o EncodeComponent(p[2])
         IN IF Tail(pairs) = <<>> THEN one
            ELSE one \o <<"&">> \o SearchParamsToString(Tail(pairs))

\* ----------------------------------------------------- buildUrlWithParams

\* The inner loop: one append of `key[]` per item, in order.
RECURSIVE AppendItems(_, _)
AppendItems(key, items) ==
    IF items = <<>> THEN <<>>
    ELSE <<  <<key \o <<"[", "]">>, String(Head(items))>>  >>
         \o AppendItems(key, Tail(items))

\* What one entry of params appends to searchParams.
EntryPairs(entry) ==
    LET key == entry[1]
        value == entry[2]
    IN IF value.t \in {"undefined", "null"} THEN <<>>
       ELSE IF value.t = "array" THEN AppendItems(key, value.v)
       ELSE << <<key, String(value)>> >>

\* The outer loop over Object.entries(params).
RECURSIVE AppendEntries(_)
AppendEntries(params) ==
    IF params = <<>> THEN <<>>
    ELSE EntryPairs(Head(params)) \o AppendEntries(Tail(params))

buildUrlAlwaysMark(url, params) ==
    url \o <<"?">> \o SearchParamsToString(AppendEntries(params))

buildUrlWithParams(url, params) ==
    LET queryString == SearchParamsToString(AppendEntries(params))
    IN IF queryString # <<>> THEN url \o <<"?">> \o queryString ELSE url

\* ------------------------------------------- a standard query-string parser
\* The reader the round-trip claim names: URLSearchParams parsing, which is
\* no code of the services layer.  It is used only to state that claim.

\* The position of the first c in s, or 0.
IndexOf(s, c) ==
    IF \E i \in 1..Len(s) : s[i] = c
      THEN CHOOSE i \in 1..Len(s) : s[i] = c /\ \A j \in 1..(i - 1) : s[j] # c
      ELSE 0

RECURSIVE Split(_, _)
Split(s, c) ==
    LET i == IndexOf(s, c)
    IN IF i = 0 THEN <<s>>
       ELSE <<SubSeq(s, 1, i - 1)>> \o Split(SubSeq(s, i + 1, Len(s)), c)

\* "+" is a space, "%XY" is the byte XY, anything else is itself.
RECURSIVE DecodeComponent(_)
DecodeComponent(s) ==
    IF s = <<>> THEN <<>>
    ELSE IF Head(s) = "+" THEN <<" ">> \o DecodeComponent(Tail(s))
    ELSE IF Head(s) = "%" /\ Len(s) >= 3
            /\ \E c \in Reserved : HexOf(c) = <<s[2], s[3]>>
      THEN <<CHOOSE c \in Reserved : HexOf(c) = <<s[2], s[3]>> >>
           \o DecodeComponent(SubSeq(s, 4, Len(s)))
    ELSE <<Head(s)>> \o DecodeComponent(Tail(s))

\* One name=value piece, split at its first "=".
ParsePiece(piece) ==
    LET i == IndexOf(piece, "=")
    IN IF i = 0 THEN <<DecodeComponent(piece), <<>> >>
       ELSE <<DecodeComponent(SubSeq(piece, 1, i - 1)),
              DecodeComponent(SubSeq(piece, i + 1, Len(piece)))>>

RECURSIVE ParsePieces(_)
ParsePieces(pieces) ==
    IF pieces = <<>> THEN <<>>
    ELSE IF Head(pieces) = <<>> THEN ParsePieces(Tail(pieces))
    ELSE <<ParsePiece(Head(pieces))>> \o ParsePieces(Tail(pieces))

\* new URLSearchParams(qs): the name/value pairs of a query string, in order.
ParseQueryString(qs) == ParsePieces(Split(qs, "&"))

\* ------------------------------------------- inputs of buildUrlWithParams

Urls == {<<"/", "s", "y", "n", "c", "s">>, <<"/", "r", "?", "x", "=", "1">>}

Keys == {<<"p">>, <<"i", "d", "s">>, <<"a", "&">>}

ScalarValues ==
    {Str(<<>>), Str(<<"a", "&", "b", "=", " ", "c">>), Str(<<"%", "2", "6">>),
     Str(<<"+", "[">>), Num(0), Num(25), Bool(TRUE), Bool(FALSE)}

ArrayValues ==
    {Arr(<<>>), Arr(<<Num(1), Num(2)>>),
     Arr(<<Str(<<"x", " ", "y">>), Num(10), Str(<<"x", " ", "y">>)>>),
     Arr(<<Str(<<"]", ",">>)>>)}

Values == {Undefined, Null} \cup ScalarValues \cup ArrayValues

\* The mappings: at most MaxParams entries in insertion order, keys distinct.
ParamsSet ==
    UNION {{ps \in [1..n -> Keys \X Values] :
                \A i, j \in 1..n : i # j => ps[i][1] # ps[j][1]} : n \in 0..MaxParams}

\* ----------------------------------------------------------- configuration

API_VERSION == "/api/v1"

ApiHost == "https://api.example"
\* The configurations the process may run under: workspace id and token.
Configs == {<<"w1", "t1">>, <<"w2", "t2">>}

\* ------------------------------------------------------------- api-client

\* Per-call options (AxiosRequestConfig): extra headers and a timeout.
NoHeaders == [h \in {} |-> ""]
NoOptions == [headers |-> NoHeaders, timeout |-> Undefined]

\* What the instance's verb methods make of (url, data, config): the verb's own
\* method, url and data, the rest from config.
VerbConfig(method, url, data, config) ==
    [method |-> method, url |-> url, data |-> data,
     headers |-> config.headers, timeout |-> config.timeout]

\* The switch of apiFetch: post, put and patch pass data; delete and the
\* default (get) do not.
DispatchAlwaysData(url, method, data, options) ==
    LET config == options
    IN CASE method = "post" -> VerbConfig("post", url, data, config)
         [] method = "put" -> VerbConfig("put", url, data, config)
         [] method = "delete" -> VerbConfig("delete", url, data, config)
         [] method = "patch" -> VerbConfig("patch", url, data, config)
         [] OTHER -> VerbConfig("get", url, data, config)

Dispatch(url, method, data, options) ==
    LET config == options
    IN CASE method = "post" -> VerbConfig("post", url, data, config)
         [] method = "put" -> VerbConfig("put", url, data, config)
         [] method = "delete" -> VerbConfig("delete", url, Undefined, config)
         [] method = "patch" -> VerbConfig("patch", url, data, config)
         [] OTHER -> VerbConfig("get", url, Undefined, config)

\* Headers fixed from the configuration the client was constructed under.
FixedHeadersAtConstruction(e) ==
    ("Workspace-Id" :> "w1")
    @@ ("Authorization" :> ("Bearer " \o "t1"))
    @@ ("Accept" :> "*/*")
    @@ ("Content-Type" :> "application/json")

\* The request interceptor: sets four headers from the configuration `e`.
FixedHeaders(e) ==
    ("Workspace-Id" :> e.VITE_WORKSPACE_ID)
    @@ ("Authorization" :> ("Bearer " \o e.VITE_API_TOKEN))
    @@ ("Accept" :> "*/*")
    @@ ("Content-Type" :> "application/json")

\* An interceptor that replaces the headers instead of setting four of them.
RequestInterceptorOnlyFixed(config, e) ==
    [config EXCEPT !.headers = FixedHeaders(e)]

RequestInterceptor(config, e) ==
    [config EXCEPT !.headers = FixedHeaders(e) @@ config.headers]

\* An error of the transport or of the runtime; response is Undefined when
\* no HTTP response was obtained.
Error(code, response) == [t |-> "error", code |-> code, response |-> response]

\* How the adapter settles a response: fulfilled for 2xx, otherwise rejected
\* with an error that carries the response.
Fulfilled(v) == [ok |-> TRUE, v |-> v]
Rejected(v) == [ok |-> FALSE, v |-> v]
Settle(response) ==
    IF response.status >= 200 /\ response.status < 300
      THEN Fulfilled(response)
      ELSE Rejected(Error("ERR_BAD_REQUEST", response))

\* The response interceptor: a response passes; an error with a response
\* becomes that response; an error without one stays a rejection.
ResponseInterceptorThrowing(outcome) == outcome

ResponseInterceptorSwallowing(outcome) ==
    IF outcome.ok THEN outcome
    ELSE IF outcome.v.response # Undefined THEN Fulfilled(outcome.v.response)
    ELSE Fulfilled([status |-> 0, data |-> Undefined])

ResponseInterceptor(outcome) ==
    IF outcome.ok THEN outcome
    ELSE IF outcome.v.response # Undefined THEN Fulfilled(outcome.v.response)
    ELSE Rejected(outcome.v)

\* .then((res) => res.data)
Unwrap(outcome) ==
    IF outcome.ok THEN Fulfilled(outcome.v.data) ELSE outcome

\* A call of apiFetch as it leaves the client: the request after the
\* interceptor, handed to the transport once.
NewCall(inv, url, method, data, options, e, client) ==
    [inv |-> inv,
     args |-> [url |-> url, method |-> method, data |-> data, options |-> options],
     baseURL |-> client.baseURL,
     request |-> RequestInterceptor(Dispatch(url, method, data, options), e),
     sent |-> 1,
     transport |-> Undefined,
     status |-> "pending",
     value |-> Undefined]

\* The call once the transport has produced `outcome` (a settled adapter
\* promise): through the response interceptor and the unwrap.
SettledCall(call, transport, outcome) ==
    LET res == Unwrap(ResponseInterceptor(outcome))
    IN [call EXCEPT !.transport = transport,
                    !.status = IF res.ok THEN "resolved" ELSE "rejected",
                    !.value = res.v]

\* One pending request shared by the calls whose requests are identical.
SendRequestCoalesced(cs, call) ==
    IF \E c \in DOMAIN cs : cs[c].status = "pending" /\ cs[c].request = call.request
      THEN cs
      ELSE Append(cs, call)

\* The verb call of apiFetch: every call is a request of its own.
SendRequest(cs, call) == Append(cs, call)

\* ---------------------------------------------------------------- endpoints

\* dashboard.ts: the url getReport builds from its (defaulted) options.
getReportUrl(opts) ==
    LET metric == IF opts.metric = Undefined THEN Str(<<"a", "l", "l">>) ELSE opts.metric
        timePeriod ==
            IF opts.timePeriod = Undefined THEN Str(<<"o", "n", "e", "_", "w", "e", "e", "k">>) ELSE opts.timePeriod
        connectorIds ==
            IF opts.connectorIds = Undefined THEN Arr(<<>>) ELSE opts.connectorIds
    IN buildUrlWithParams(<<"/", "r", "e", "p", "o", "r", "t", "s">>,
          << <<<<"t", "y", "p", "e">>, Str(<<"w", "o", "r", "k", "s", "p", "a", "c", "e", "_", "a", "c", "t", "i", "v", "i", "t", "y">>)>>,
             <<<<"m", "e", "t", "r", "i", "c">>, metric>>,
             <<<<"t", "i", "m", "e", "_", "p", "e", "r", "i", "o", "d">>, timePeriod>>,
             <<<<"c", "o", "n", "n", "e", "c", "t", "o", "r", "_", "i", "d", "s">>,
               IF Len(connectorIds.v) > 0 THEN connectorIds ELSE Undefined>> >>)

\* models.ts: the request of querySource(connectorId, query).
querySourceRequest(connectorId, query) ==
    [method |-> "post",
     url |-> <<"/", "c", "o", "n", "n", "e", "c", "t", "o", "r", "s", "/">> \o connectorId \o <<"/", "q", "u", "e", "r", "y", "_", "s", "o", "u", "r", "c", "e">>,
     data |-> [query |-> query]]

\* models.ts: the request of getModelById(id).
getModelByIdRequest(id) ==
    [method |-> "get", url |-> <<"/", "m", "o", "d", "e", "l", "s", "/">> \o id, data |-> Undefined]

\* The envelope executeModel fabricates when the lookup yields no data.
NotFoundEnvelope ==
    [status |-> 404,
     errors |-> <<[status |-> 404, title |-> "Not Found", detail |-> "Model not found"]>>]

\* !modelResponse.data
NoData(body) == "data" \notin DOMAIN body \/ body.data \in {Undefined, Null}

\* Whether data has the attributes executeModel destructures.
IsModel(data) == "attributes" \in DOMAIN data

\* executeModel after `await getModelById(modelId)`: what the invocation
\* settles to (status, value), and the querySource requests it issues.
executeModelAfterLookupPassThrough(lookup) ==
    IF lookup.status = "rejected"
      THEN [status |-> "rejected", value |-> lookup.value, issue |-> <<>>]
    ELSE IF NoData(lookup.value)
      THEN [status |-> "resolved", value |-> lookup.value, issue |-> <<>>]
    ELSE IF ~IsModel(lookup.value.data)
      THEN [status |-> "rejected", value |-> Error("TypeError", Undefined),
            issue |-> <<>>]
    ELSE LET attributes == lookup.value.data.attributes
         IN [status |-> "pending", value |-> Undefined,
             issue |-> <<querySourceRequest(attributes.connector.id, attributes.query)>>]

executeModelAfterLookupModelId(lookup) ==
    IF lookup.status = "rejected"
      THEN [status |-> "rejected", value |-> lookup.value, issue |-> <<>>]
    ELSE IF NoData(lookup.value)
      THEN [status |-> "resolved", value |-> NotFoundEnvelope, issue |-> <<>>]
    ELSE IF ~IsModel(lookup.value.data)
      THEN [status |-> "rejected", value |-> Error("TypeError", Undefined),
            issue |-> <<>>]
    ELSE LET attributes == lookup.value.data.attributes
         IN [status |-> "pending", value |-> Undefined,
             issue |-> <<querySourceRequest(lookup.value.data.id, attributes.query)>>]

\* executeModel with the await wrapped in a try/catch that answers 404.
executeModelAfterLookupCatch(lookup) ==
    IF lookup.status = "rejected" \/ NoData(lookup.value)
      THEN [status |-> "resolved", value |-> NotFoundEnvelope, issue |-> <<>>]
    ELSE IF ~IsModel(lookup.value.data)
      THEN [status |-> "rejected", value |-> Error("TypeError", Undefined),
            issue |-> <<>>]
    ELSE LET attributes == lookup.value.data.attributes
         IN [status |-> "pending", value |-> Undefined,
             issue |-> <<querySourceRequest(attributes.connector.id, attributes.query)>>]

executeModelAfterLookup(lookup) ==
    IF lookup.status = "rejected"
      THEN [status |-> "rejected", value |-> lookup.value, issue |-> <<>>]
    ELSE IF NoData(lookup.value)
      THEN [status |-> "resolved", value |-> NotFoundEnvelope, issue |-> <<>>]
    ELSE IF ~IsModel(lookup.value.data)
      THEN [status |-> "rejected", value |-> Error("TypeError", Undefined),
            issue |-> <<>>]
    ELSE LET attributes == lookup.value.data.attributes
         IN [status |-> "pending", value |-> Undefined,
             issue |-> <<querySourceRequest(attributes.connector.id, attributes.query)>>]

\* ------------------------------------------------------ inputs of the calls

Methods == {"get", "post", "put", "delete", "patch", "head"}
Payload == [note |-> "payload"]
WithOptions ==
    [headers |-> ("Authorization" :> "Basic caller") @@ ("X-Trace" :> "1"),
     timeout |-> Num(5000)]

\* The props apiFetch is called with: every method value (one of them outside
\* the declared union) with a payload, and some without payload or with options.
FetchProps ==
    {[url |-> <<"/", "x">>, method |-> m, data |-> Payload, options |-> NoOptions] :
        m \in Methods}
    \cup {[url |-> <<"/", "x">>, method |-> m, data |-> Undefined, options |-> NoOptions] :
        m \in {"get", "post"}}
    \cup {[url |-> <<"/", "x">>, method |-> m, data |-> Payload, options |-> WithOptions] :
        m \in {"get", "post"}}

ModelIds == {<<"m", "1">>, <<"m", "2">>}

\* The saved models of the backend, by id.
ModelOf(id) ==
    [id |-> id, type |-> "models",
     attributes |->
        IF id = <<"m", "1">>
          THEN [query |-> "SELECT 1", connector |-> [id |-> <<"c", "7">>]]
          ELSE [query |-> "SELECT 2", connector |-> [id |-> <<"c", "9">>]]]

Rows == [t |-> "rows", v |-> <<[n |-> 1]>>]
ServerError ==
    [errors |-> <<[status |-> 404, title |-> "Not Found", detail |-> "Record not found"]>>]

\* What the backend may answer: a status and a body.
Responses ==
    {[status |-> 200, data |-> [data |-> ModelOf(id)]] : id \in ModelIds}
    \cup {[status |-> 200, data |-> [data |-> Rows]],
          [status |-> 404, data |-> ServerError]}

\* Failures of the transport that produce no response.
TransportErrors == {Error("ERR_NETWORK", Undefined)}

ReportOptions ==
    {[metric |-> Undefined, timePeriod |-> Undefined, connectorIds |-> c] :
        c \in {Undefined, Arr(<<>>), Arr(<<Num(1), Num(2)>>)}}
    \cup {[metric |-> Str(<<"s", "y", "n", "c", "_", "r", "u", "n", "_", "t", "r", "i", "g", "g", "e", "r", "e", "d">>), timePeriod |-> Str(<<"o", "n", "e", "_", "d", "a", "y">>),
           connectorIds |-> Arr(<<Num(12)>>)]}

\* ------------------------------------------------------------------ actions

createApiClient(e) == [baseURL |-> e.VITE_API_HOST \o API_VERSION]

HttpInit ==
    /\ env = [VITE_API_HOST |-> ApiHost, VITE_WORKSPACE_ID |-> "w1",
              VITE_API_TOKEN |-> "t1"]
    /\ apiClient = createApiClient(env)
    /\ calls = <<>>
    /\ invs = <<>>

Init ==
    /\ HttpInit
    /\ bUrl = <<>>
    /\ bParams = <<>>
    /\ bResult = <<>>
    /\ bPc = "idle"

\* The configuration changes (outside the services layer).
SetEnv(config) ==
    /\ config # <<env.VITE_WORKSPACE_ID, env.VITE_API_TOKEN>>
    /\ env' = [env EXCEPT !.VITE_WORKSPACE_ID = config[1], !.VITE_API_TOKEN = config[2]]
    /\ UNCHANGED <<apiClient, calls, invs>>
    /\ UNCHANGED urlVars

Invocation(op, args, pc) ==
    [op |-> op, args |-> args, pc |-> pc, status |-> "pending", value |-> Undefined]

\* A caller invokes apiFetch(props), props = {url, method, data, options}.
CallApiFetch(props) ==
    /\ Len(invs) < MaxInvocations
    /\ invs' = Append(invs, Invocation("apiFetch", props, "await"))
    /\ calls' = SendRequest(calls,
                 NewCall(Len(invs) + 1, props.url, props.method, props.data,
                         props.options, env, apiClient))
    /\ UNCHANGED <<env, apiClient>>
    /\ UNCHANGED urlVars

\* A caller invokes getReport(opts).
GetReport(opts) ==
    /\ Len(invs) < MaxInvocations
    /\ invs' = Append(invs, Invocation("getReport", opts, "await"))
    /\ calls' = SendRequest(calls,
                 NewCall(Len(invs) + 1, getReportUrl(opts), "get", Undefined,
                         NoOptions, env, apiClient))
    /\ UNCHANGED <<env, apiClient>>
    /\ UNCHANGED urlVars

\* A caller invokes executeModel(modelId): up to the await of getModelById.
ExecuteModel(modelId) ==
    /\ Len(invs) < MaxInvocations
    /\ invs' = Append(invs, Invocation("executeModel", [modelId |-> modelId], "lookup"))
    /\ LET r == getModelByIdRequest(modelId)
       IN calls' = SendRequest(calls,
                 NewCall(Len(invs) + 1, r.url, r.method, r.data, NoOptions, env, apiClient))
    /\ UNCHANGED <<env, apiClient>>
    /\ UNCHANGED urlVars

\* The transport has settled call c: the promise chain of apiFetch runs, then
\* the function awaiting it.
Resume(c, settled) ==
    LET i == settled.inv
        inv == invs[i]
        calls1 == [calls EXCEPT ![c] = settled]
    IN IF inv.op = "executeModel" /\ inv.pc = "lookup"
         THEN LET next == executeModelAfterLookup(settled)
              IN /\ invs' = [invs EXCEPT ![i].pc =
                                            IF next.issue = <<>> THEN "done" ELSE "query",
                                         ![i].status = next.status,
                                         ![i].value = next.value]
                 /\ calls' =
                      IF next.issue = <<>> THEN calls1
                      ELSE LET r == next.issue[1]
                           IN SendRequest(calls1,
                                NewCall(i, r.url, r.method, r.data, NoOptions,
                                        env, apiClient))
         ELSE /\ invs' = [invs EXCEPT ![i].pc = "done",
                                      ![i].status = settled.status,
                                      ![i].value = settled.value]
              /\ calls' = calls1

\* The backend answers call c.
TransportRespond(c, response) ==
    /\ calls[c].status = "pending"
    /\ Resume(c, SettledCall(calls[c], response, Settle(response)))
    /\ UNCHANGED <<env, apiClient>>
    /\ UNCHANGED urlVars

\* The transport fails on call c without a response.
TransportFail(c, error) ==
    /\ calls[c].status = "pending"
    /\ Resume(c, SettledCall(calls[c], error, Rejected(error)))
    /\ UNCHANGED <<env, apiClient>>
    /\ UNCHANGED urlVars

Next ==
    \/ \E c \in Configs : SetEnv(c)
    \/ \E p \in FetchProps : CallApiFetch(p)
    \/ \E o \in ReportOptions : GetReport(o)
    \/ \E id \in ModelIds : ExecuteModel(id)
    \/ \E c \in DOMAIN calls, r \in Responses : TransportRespond(c, r)
    \/ \E c \in DOMAIN calls, e \in TransportErrors : TransportFail(c, e)

Spec == Init /\ [][Next]_vars

\* ------------------------------------- buildUrlWithParams on bounded inputs

InitUrl ==
    /\ HttpInit
    /\ bUrl \in Urls
    /\ bParams \in ParamsSet
    /\ bResult = <<>>
    /\ bPc = "input"

\* The call buildUrlWithParams(bUrl, bParams).
Build ==
    /\ bPc = "input"
    /\ bResult' = buildUrlWithParams(bUrl, bParams)
    /\ bPc' = "done"
    /\ UNCHANGED <<bUrl, bParams>>
    /\ UNCHANGED httpVars

NextUrl == Build

SpecUrl == InitUrl /\ [][NextUrl]_vars

\* ------------------------------------------------- paginated list endpoints

\* A default parameter value: used when the argument is undefined.
Default(value, default) == IF value = Undefined THEN default ELSE value

\* models.ts: AllDataModels.
AllDataModels ==
    <<"r", "a", "w", "_", "s", "q", "l", ",", "d", "b", "t", ",", "s", "o", "q", "l", ",", "t", "a", "b", "l", "e", "_", "s", "e", "l", "e", "c", "t", "o", "r", ",", "d", "y", "n", "a", "m", "i", "c", "_", "s", "q", "l", ",", "u", "n", "s", "t", "r", "u", "c", "t", "u", "r", "e", "d", ",", "v", "e", "c", "t", "o", "r", "_", "s", "e", "a", "r", "c", "h", ",", "s", "e", "m", "i", "s", "t", "r", "u", "c", "t", "u", "r", "e", "d">>

fetchSyncsUrlSwapped(page, perPage) ==
    buildUrlWithParams(<<"/", "s", "y", "n", "c", "s">>,
        << <<<<"p", "a", "g", "e">>, Default(perPage, Num(10))>>,
           <<<<"p", "e", "r", "_", "p", "a", "g", "e">>, Default(page, Num(1))>> >>)

\* syncs.ts: the url of fetchSyncs(page = 1, perPage = 10).
fetchSyncsUrl(page, perPage) ==
    buildUrlWithParams(<<"/", "s", "y", "n", "c", "s">>,
        << <<<<"p", "a", "g", "e">>, Default(page, Num(1))>>,
           <<<<"p", "e", "r", "_", "p", "a", "g", "e">>, Default(perPage, Num(10))>> >>)

\* syncs.ts: the url of getSyncRunsBySyncId(syncId, page = 1, perPage = 10).
getSyncRunsBySyncIdUrl(syncId, page, perPage) ==
    buildUrlWithParams(<<"/", "s", "y", "n", "c", "s", "/">> \o syncId \o <<"/", "s", "y", "n", "c", "_", "r", "u", "n", "s">>,
        << <<<<"p", "a", "g", "e">>, Default(page, Num(1))>>,
           <<<<"p", "e", "r", "_", "p", "a", "g", "e">>, Default(perPage, Num(10))>> >>)

\* connectors.ts: the url of getUserConnectors(connectorType, page = 1, perPage = 10).
getUserConnectorsUrl(connectorType, page, perPage) ==
    buildUrlWithParams(<<"/", "c", "o", "n", "n", "e", "c", "t", "o", "r", "s">>,
        << <<<<"t", "y", "p", "e">>, connectorType>>,
           <<<<"p", "a", "g", "e">>, Default(page, Num(1))>>,
           <<<<"p", "e", "r", "_", "p", "a", "g", "e">>, Default(perPage, Num(10))>> >>)

\* models.ts: the url of getAllModels({type = AllDataModels, page = 1, perPage = 10}).
getAllModelsUrl(opts) ==
    buildUrlWithParams(<<"/", "m", "o", "d", "e", "l", "s">>,
        << <<<<"p", "a", "g", "e">>, Default(opts.page, Num(1))>>,
           <<<<"p", "e", "r", "_", "p", "a", "g", "e">>, Default(opts.perPage, Num(10))>>,
           <<<<"q", "u", "e", "r", "y", "_", "t", "y", "p", "e">>, Default(opts.type, Str(AllDataModels))>> >>)

Pages == {Undefined, Num(2)}
PerPages == {Num(5), Num(25)}
SyncIds == {<<"s", "4">>}
ConnectorTypes == {Str(<<"s", "o", "u", "r", "c", "e">>)}
ModelTypes == {Undefined}

\* A page of a list with a link to the next page, as the backend answers.
ListPage ==
    [data |-> Rows,
     links |-> [self |-> "page=2", next |-> "page=3", prev |-> "page=1"]]
ListResponses ==
    {[status |-> 200, data |-> ListPage], [status |-> 404, data |-> ServerError]}

\* A list function's apiFetch({method: 'get', url}), added to the calls.
ListRequest(url) ==
    SendRequest(calls,
        NewCall(Len(invs) + 1, url, "get", Undefined, NoOptions, env, apiClient))

FetchSyncs(page, perPage) ==
    /\ Len(invs) < MaxInvocations
    /\ invs' = Append(invs,
                 Invocation("fetchSyncs", [page |-> page, perPage |-> perPage], "await"))
    /\ calls' = ListRequest(fetchSyncsUrl(page, perPage))
    /\ UNCHANGED <<env, apiClient>>
    /\ UNCHANGED urlVars

GetSyncRunsBySyncId(syncId, page, perPage) ==
    /\ Len(invs) < MaxInvocations
    /\ invs' = Append(invs,
                 Invocation("getSyncRunsBySyncId",
                   [syncId |-> syncId, page |-> page, perPage |-> perPage], "await"))
    /\ calls' = ListRequest(getSyncRunsBySyncIdUrl(syncId, page, perPage))
    /\ UNCHANGED <<env, apiClient>>
    /\ UNCHANGED urlVars

GetUserConnectors(connectorType, page, perPage) ==
    /\ Len(invs) < MaxInvocations
    /\ invs' = Append(invs,
                 Invocation("getUserConnectors",
                   [connectorType |-> connectorType, page |-> page,
                    perPage |-> perPage], "await"))
    /\ calls' = ListRequest(getUserConnectorsUrl(connectorType, page, perPage))
    /\ UNCHANGED <<env, apiClient>>
    /\ UNCHANGED urlVars

GetAllModels(opts) ==
    /\ Len(invs) < MaxInvocations
    /\ invs' = Append(invs, Invocation("getAllModels", opts, "await"))
    /\ calls' = ListRequest(getAllModelsUrl(opts))
    /\ UNCHANGED <<env, apiClient>>
    /\ UNCHANGED urlVars

NextList ==
    \/ \E p \in Pages, n \in PerPages : FetchSyncs(p, n)
    \/ \E id \in SyncIds, p \in Pages, n \in PerPages : GetSyncRunsBySyncId(id, p, n)
    \/ \E k \in ConnectorTypes, p \in Pages, n \in PerPages : GetUserConnectors(k, p, n)
    \/ \E k \in ModelTypes, p \in Pages, n \in PerPages :
          GetAllModels([type |-> k, page |-> p, perPage |-> n])
    \/ \E c \in DOMAIN calls, r \in ListResponses : TransportRespond(c, r)
    \/ \E c \in DOMAIN calls, e \in TransportErrors : TransportFail(c, e)

SpecList == Init /\ [][NextList]_vars

\* ------------------------------------------------- vocabulary of the claims

\* The apiFetch calls made by invocation i, and the first of them.
CallsOf(i) == {c \in DOMAIN calls : calls[c].inv = i}
FirstCallOf(i) == CHOOSE c \in CallsOf(i) : \A d \in CallsOf(i) : c <= d
LastCallOf(i) == CHOOSE c \in CallsOf(i) : \A d \in CallsOf(i) : d <= c

\* The transport answered call c with an HTTP response / failed without one.
GotResponse(c) == "status" \in DOMAIN calls[c].transport
GotFailure(c) == "code" \in DOMAIN calls[c].transport

ExecuteModelInvs == {i \in DOMAIN invs : invs[i].op = "executeModel"}

\* Whether sub occurs in s as a contiguous subsequence.
Contains(s, sub) ==
    \E i \in 1..(Len(s) - Len(sub) + 1) : SubSeq(s, i, i + Len(sub) - 1) = sub

StartsWith(s, prefix) ==
    Len(s) >= Len(prefix) /\ SubSeq(s, 1, Len(prefix)) = prefix

\* The query string of a url: what follows its first "?".
QueryOf(url) ==
    LET i == IndexOf(url, "?")
    IN IF i = 0 THEN <<>> ELSE SubSeq(url, i + 1, Len(url))

\* C1: whenever the model lookup of an executeModel invocation resolved with an
\* envelope that has no data field, the invocation is resolved with exactly
\* {status: 404, errors: [{status: 404, title: 'Not Found', detail: 'Model not
\* found'}]} and the lookup is the only network call the invocation ever made.
C1_MissingModelIs404 ==
    \A i \in ExecuteModelInvs :
        LET c == FirstCallOf(i)
        IN (calls[c].status = "resolved" /\ "data" \notin DOMAIN calls[c].value)
           => /\ invs[i].status = "resolved"
              /\ invs[i].value =
                   [status |-> 404,
                    errors |-> <<[status |-> 404, title |-> "Not Found",
                                  detail |-> "Model not found"]>>]
              /\ CallsOf(i) = {c}

C1_Witness ==
    \E i \in ExecuteModelInvs :
        /\ calls[FirstCallOf(i)].status = "resolved"
        /\ "data" \notin DOMAIN calls[FirstCallOf(i)].value
        /\ invs[i].status = "resolved"
        /\ invs[i].value.status = 404
        /\ Cardinality(CallsOf(i)) = 1

\* C2: whenever the transport produced an HTTP response for a call, 2xx or not,
\* the call's promise is resolved (never rejected) with that response's body;
\* the quantifier ranges over the calls of every method.
C2_ResponsesResolve ==
    \A c \in DOMAIN calls :
        GotResponse(c)
        => /\ calls[c].status = "resolved"
           /\ calls[c].value = calls[c].transport.data

C2_Witness ==
    \E c \in DOMAIN calls :
        /\ calls[c].args.method = "patch"
        /\ GotResponse(c)
        /\ calls[c].transport.status = 404
        /\ calls[c].status = "resolved"
        /\ calls[c].value = ServerError

\* C3: whenever the transport failed on a call without any response, the
\* call's promise is rejected with that same failure, and the request was
\* handed to the transport exactly once.
C3_FailuresReject ==
    \A c \in DOMAIN calls :
        GotFailure(c)
        => /\ calls[c].status = "rejected"
           /\ calls[c].value = calls[c].transport
           /\ calls[c].sent = 1

C3_Witness ==
    \E c \in DOMAIN calls :
        /\ GotFailure(c)
        /\ calls[c].transport.response = Undefined
        /\ calls[c].status = "rejected"
        /\ calls[c].value.code = "ERR_NETWORK"
        /\ invs[calls[c].inv].op = "apiFetch"
        /\ invs[calls[c].inv].status = "rejected"

\* C4: every request that leaves the client carries Workspace-Id,
\* Authorization: Bearer {token}, Accept: */* and Content-Type:
\* application/json, the workspace id and token being those of the
\* configuration in force at the step that issues the request, and a request
\* once issued is not altered by a later change of configuration.
C4_HeadersFromConfigAtRequest ==
    [][/\ \A c \in DOMAIN calls' :
            c \notin DOMAIN calls
            => LET h == calls'[c].request.headers
               IN /\ {"Workspace-Id", "Authorization", "Accept", "Content-Type"}
                        \subseteq DOMAIN h
                  /\ h["Workspace-Id"] = env.VITE_WORKSPACE_ID
                  /\ h["Authorization"] = "Bearer " \o env.VITE_API_TOKEN
                  /\ h["Accept"] = "*/*"
                  /\ h["Content-Type"] = "application/json"
       /\ \A c \in DOMAIN calls : calls'[c].request = calls[c].request]_vars

\* Two requests on the one client, the configuration changed in between: the
\* first carries the old workspace id and token, the second the new ones.
C4_Witness ==
    /\ Len(calls) = 2
    /\ calls[1].request.headers["Workspace-Id"] = "w1"
    /\ calls[1].request.headers["Authorization"] = "Bearer t1"
    /\ calls[2].request.headers["Workspace-Id"] = "w2"
    /\ calls[2].request.headers["Authorization"] = "Bearer t2"
    /\ calls[1].baseURL = calls[2].baseURL

\* The lookup of invocation i resolved with a model as its data.
FetchedModel(i) ==
    LET c == FirstCallOf(i)
    IN /\ calls[c].status = "resolved"
       /\ "data" \in DOMAIN calls[c].value
       /\ "attributes" \in DOMAIN calls[c].value.data

\* C5: an executeModel invocation has made no call but the lookup while the
\* lookup is pending; once the lookup resolved with a model, the invocation has
\* made exactly one further call, POST /connectors/{id}/query_source with {id}
\* the fetched model's connector id and body {query} the fetched model's query,
\* and the invocation settles as that call settles.
C5_QueryAfterLookup ==
    \A i \in ExecuteModelInvs :
        LET c == FirstCallOf(i)
            q == LastCallOf(i)
        IN /\ calls[c].status = "pending" => CallsOf(i) = {c}
           /\ FetchedModel(i)
              => LET model == calls[c].value.data
                 IN /\ Cardinality(CallsOf(i)) = 2
                    /\ c < q
                    /\ calls[q].request.method = "post"
                    /\ calls[q].request.url =
                         <<"/", "c", "o", "n", "n", "e", "c", "t", "o", "r", "s", "/">>
                         \o model.attributes.connector.id
                         \o <<"/", "q", "u", "e", "r", "y", "_", "s", "o", "u", "r", "c", "e">>
                    /\ calls[q].request.data = [query |-> model.attributes.query]
                    /\ invs[i].status = calls[q].status
                    /\ invs[i].value = calls[q].value

C5_Witness ==
    \E i \in ExecuteModelInvs :
        /\ FetchedModel(i)
        /\ invs[i].args.modelId = <<"m", "1">>
        /\ calls[FirstCallOf(i)].value.data.attributes.connector.id = <<"c", "9">>
        /\ calls[LastCallOf(i)].request.url = <<"/", "c", "o", "n", "n", "e", "c", "t", "o", "r", "s", "/">> \o <<"c", "9">> \o <<"/", "q", "u", "e", "r", "y", "_", "s", "o", "u", "r", "c", "e">>
        /\ invs[i].status = "resolved"
        /\ invs[i].value = [data |-> Rows]

\* C10: the request of every call has the verb of the method argument (get for
\* a value outside get, post, put, delete, patch); it carries the data
\* argument for post, put and patch and no payload for get, delete and the
\* fallback, whatever data the caller supplied.
C10_DispatchByMethod ==
    \A c \in DOMAIN calls :
        LET m == calls[c].args.method
        IN /\ calls[c].request.method =
                IF m \in {"post", "put", "delete", "patch"} THEN m ELSE "get"
           /\ calls[c].request.data =
                IF m \in {"post", "put", "patch"} THEN calls[c].args.data
                ELSE Undefined
           /\ calls[c].request.url = calls[c].args.url

C10_Witness ==
    /\ Len(calls) = 2
    /\ calls[1].args.method = "delete"
    /\ calls[1].args.data = Payload
    /\ calls[1].request.method = "delete"
    /\ calls[1].request.data = Undefined
    /\ calls[2].args.method = "head"
    /\ calls[2].args.data = Payload
    /\ calls[2].request.method = "get"
    /\ calls[2].request.data = Undefined

\* The invocations of getReport, and the url each one requested.
GetReportInvs == {i \in DOMAIN invs : invs[i].op = "getReport"}
ReportUrl(i) == calls[FirstCallOf(i)].request.url

\* C6: a getReport whose connectorIds is empty or not supplied requests a url
\* whose query string has no connector_ids parameter, and a getReport with
\* connectorIds [1,2] requests a url whose query string contains
\* connector_ids[]=1&connector_ids[]=2.
C6_ReportConnectorIds ==
    \A i \in GetReportInvs :
        LET ids == invs[i].args.connectorIds
            qs == QueryOf(ReportUrl(i))
        IN /\ (ids = Undefined \/ ids = Arr(<<>>))
              => ~Contains(qs, <<"c", "o", "n", "n", "e", "c", "t", "o", "r", "_", "i", "d", "s">>)
           /\ ids = Arr(<<Num(1), Num(2)>>)
              => Contains(qs, <<"c", "o", "n", "n", "e", "c", "t", "o", "r", "_", "i", "d", "s">> \o <<"[", "]", "=", "1", "&">>
                              \o <<"c", "o", "n", "n", "e", "c", "t", "o", "r", "_", "i", "d", "s">> \o <<"[", "]", "=", "2">>)

\* The query string buildUrlWithParams produced: bResult without bUrl and "?".
BuiltQuery == SubSeq(bResult, Len(bUrl) + 2, Len(bResult))

Absent(value) == value.t \in {"undefined", "null"}
AllAbsent(params) == \A i \in DOMAIN params : Absent(params[i][2])

\* C7: for every path and every mapping with no entries, or whose entries all
\* have undefined or null values, buildUrlWithParams returns the path itself,
\* without a trailing "?".
C7_AbsentParamsKeepPath ==
    (bPc = "done" /\ AllAbsent(bParams)) => bResult = bUrl

C7_Witness ==
    /\ bPc = "done"
    /\ Len(bParams) = 2
    /\ bParams[1][2] = Undefined
    /\ bParams[2][2] = Null
    /\ bResult = bUrl
    /\ bResult[Len(bResult)] # "?"

\* The name=value pieces of a query string, and those written for a name.
PiecesOf(qs) == IF qs = <<>> THEN <<>> ELSE Split(qs, "&")
PiecesFor(qs, name) ==
    SelectSeq(PiecesOf(qs), LAMBDA piece : StartsWith(piece, name \o <<"=">>))

\* C8: for every array-valued entry (key, items) of the mapping, the output
\* has exactly Len(items) pieces `key[]=item`, in the order of the items, each
\* item percent-encoded, and no piece `key=` for that key.
C8_ArraysAsBrackets ==
    bPc = "done"
    => \A i \in DOMAIN bParams :
          LET key == EncodeComponent(bParams[i][1])
              value == bParams[i][2]
          IN value.t = "array"
             => /\ PiecesFor(BuiltQuery, key \o <<"[", "]">>)
                     = [n \in DOMAIN value.v |->
                          key \o <<"[", "]", "=">>
                          \o EncodeComponent(String(value.v[n]))]
                /\ PiecesFor(BuiltQuery, key) = <<>>

IsScalarMapping(params) ==
    \A i \in DOMAIN params :
        params[i][2].t \in {"string", "number", "boolean", "undefined", "null"}

\* The entries of a mapping whose values are not absent, in order.
NonAbsent(params) == SelectSeq(params, LAMBDA entry : ~Absent(entry[2]))

\* The mapping a query-string parser reads back: every value is a string.
ParsedBack ==
    LET pairs == ParseQueryString(BuiltQuery)
    IN [n \in DOMAIN pairs |-> <<pairs[n][1], Str(pairs[n][2])>>]

\* C9 as stated: for a mapping of scalars and absent values, parsing the
\* produced query string gives back the non-absent entries of the input.
C9_RoundTripAsStated ==
    (bPc = "done" /\ IsScalarMapping(bParams))
    => ParsedBack = NonAbsent(bParams)

\* C9 amended: for a mapping of scalars and absent values, parsing the
\* produced query string gives back the non-absent entries of the input with
\* each value replaced by its textual form String(value).
C9_RoundTripOfText ==
    (bPc = "done" /\ IsScalarMapping(bParams))
    => ParsedBack =
         [n \in DOMAIN NonAbsent(bParams) |->
            <<NonAbsent(bParams)[n][1], Str(String(NonAbsent(bParams)[n][2]))>>]

C9_Witness ==
    /\ bPc = "done"
    /\ Len(bParams) = 2
    /\ bParams[1] = << <<"a", "&">>, Str(<<"a", "&", "b", "=", " ", "c">>)>>
    /\ bParams[2][2] = Num(25)
    /\ ParsedBack = << << <<"a", "&">>, Str(<<"a", "&", "b", "=", " ", "c">>)>>,
                       <<bParams[2][1], Str(<<"2", "5">>)>> >>

\* What C11 says of a state: every invocation has made a request of its own,
\* a single-call function exactly one, no request was sent twice, and a call
\* answered by the transport is resolved with the body of its own response.
C11_OwnRoundTrip ==
    /\ \A i \in DOMAIN invs : CallsOf(i) # {}
    /\ \A i \in DOMAIN invs :
          invs[i].op # "executeModel" => Cardinality(CallsOf(i)) = 1
    /\ \A c \in DOMAIN calls :
          /\ calls[c].sent = 1
          /\ GotResponse(c)
             => /\ calls[c].status = "resolved"
                /\ calls[c].value = calls[c].transport.data

\* What C11 says of a step: it settles at most one call and leaves every other
\* call, pending or settled, as it was; new calls are only added at the end;
\* and while a request is in flight the shared client is not written.
C11_IndependentStep ==
    /\ Len(calls') >= Len(calls)
    /\ \A c, d \in DOMAIN calls :
          (c # d /\ calls'[c] # calls[c]) => calls'[d] = calls[d]
    /\ \A c \in DOMAIN calls :
          calls[c].status # "pending" => calls'[c] = calls[c]
    /\ (\E c \in DOMAIN calls : calls[c].status = "pending")
          => apiClient' = apiClient

\* C11: under every interleaving of the calls on the shared client, two
\* identical concurrent calls are two requests (none is coalesced into
\* another), each call resolves with the body of its own response, and the
\* client is not written while a request is in flight.
C11_ConcurrentCallsIndependent ==
    []C11_OwnRoundTrip /\ [][C11_IndependentStep]_vars

\* Two identical calls in flight together, the second answered first.
C11_Witness ==
    /\ Len(calls) = 2
    /\ calls[1].inv # calls[2].inv
    /\ calls[1].args = calls[2].args
    /\ calls[1].request = calls[2].request
    /\ calls[1].status = "pending"
    /\ calls[2].status = "resolved"
    /\ calls[2].value = ServerError
    /\ invs[calls[2].inv].value = ServerError
    /\ invs[calls[1].inv].status = "pending"

ListOps == {"fetchSyncs", "getSyncRunsBySyncId", "getUserConnectors", "getAllModels"}
ListInvs == {i \in DOMAIN invs : invs[i].op \in ListOps}

\* The path a list function requests, before the query string.
ListPath(inv) ==
    CASE inv.op = "fetchSyncs" -> <<"/", "s", "y", "n", "c", "s">>
      [] inv.op = "getSyncRunsBySyncId" -> <<"/", "s", "y", "n", "c", "s", "/">> \o inv.args.syncId \o <<"/", "s", "y", "n", "c", "_", "r", "u", "n", "s">>
      [] inv.op = "getUserConnectors" -> <<"/", "c", "o", "n", "n", "e", "c", "t", "o", "r", "s">>
      [] inv.op = "getAllModels" -> <<"/", "m", "o", "d", "e", "l", "s">>

\* C12: every invocation of fetchSyncs, getSyncRunsBySyncId, getUserConnectors
\* or getAllModels has made exactly one call, a GET without payload on the
\* function's path, whose query string has one page and one per_page piece
\* carrying the digits of the numbers the caller supplied, and it makes no
\* further call whatever the answer; fetchSyncs(2, 5) requests exactly
\* /syncs?page=2&per_page=5.
C12_OnePagePerCall ==
    \A i \in ListInvs :
        LET c == FirstCallOf(i)
            a == invs[i].args
            url == calls[c].request.url
            qs == QueryOf(url)
        IN /\ CallsOf(i) = {c}
           /\ calls[c].request.method = "get"
           /\ calls[c].request.data = Undefined
           /\ StartsWith(url, ListPath(invs[i]) \o <<"?">>)
           /\ a.page # Undefined
              => PiecesFor(qs, <<"p", "a", "g", "e">>) = <<<<"p", "a", "g", "e">> \o <<"=">> \o NumToString(a.page.v)>>
           /\ a.perPage # Undefined
              => PiecesFor(qs, <<"p", "e", "r", "_", "p", "a", "g", "e">>)
                   = <<<<"p", "e", "r", "_", "p", "a", "g", "e">> \o <<"=">> \o NumToString(a.perPage.v)>>
           /\ (invs[i].op = "fetchSyncs" /\ a.page = Num(2) /\ a.perPage = Num(5))
              => url = <<"/", "s", "y", "n", "c", "s", "?", "p", "a", "g", "e", "=", "2", "&", "p", "e", "r", "_", "p", "a", "g", "e", "=", "5">>

\* fetchSyncs(2, 5) answered with a page that links to a next page.
C12_Witness ==
    \E i \in ListInvs :
        /\ invs[i].op = "fetchSyncs"
        /\ invs[i].args = [page |-> Num(2), perPage |-> Num(5)]
        /\ calls[FirstCallOf(i)].request.url = <<"/", "s", "y", "n", "c", "s", "?", "p", "a", "g", "e", "=", "2", "&", "p", "e", "r", "_", "p", "a", "g", "e", "=", "5">>
        /\ invs[i].status = "resolved"
        /\ invs[i].value = ListPage
        /\ Cardinality(CallsOf(i)) = 1

\* The headers the request interceptor sets.
FixedHeaderNames == {"Workspace-Id", "Authorization", "Accept", "Content-Type"}

IsQuerySource(c) ==
    /\ calls[c].request.method = "post"
    /\ Len(calls[c].request.url) >= Len(<<"/", "q", "u", "e", "r", "y", "_", "s", "o", "u", "r", "c", "e">>)
    /\ SubSeq(calls[c].request.url,
              Len(calls[c].request.url) - Len(<<"/", "q", "u", "e", "r", "y", "_", "s", "o", "u", "r", "c", "e">>) + 1,
              Len(calls[c].request.url)) = <<"/", "q", "u", "e", "r", "y", "_", "s", "o", "u", "r", "c", "e">>

\* C14: an executeModel invocation makes at most two calls; a query_source
\* call of it exists only after its lookup call, which is then resolved with
\* data present; and when the lookup was rejected by a transport failure the
\* invocation is rejected with that failure and has made no query_source call.
C14_AtMostTwoCallsInOrder ==
    \A i \in ExecuteModelInvs :
        LET f == FirstCallOf(i)
        IN /\ Cardinality(CallsOf(i)) <= 2
           /\ ~IsQuerySource(f)
           /\ \A c \in CallsOf(i) :
                 IsQuerySource(c)
                 => /\ f < c
                    /\ calls[f].status = "resolved"
                    /\ "data" \in DOMAIN calls[f].value
                    /\ calls[f].value.data \notin {Undefined, Null}
           /\ GotFailure(f)
              => /\ invs[i].status = "rejected"
                 /\ invs[i].value = calls[f].transport
                 /\ \A c \in CallsOf(i) : ~IsQuerySource(c)

C14_Witness ==
    \E i \in ExecuteModelInvs :
        /\ GotFailure(FirstCallOf(i))
        /\ calls[FirstCallOf(i)].request.method = "get"
        /\ invs[i].status = "rejected"
        /\ invs[i].value = Error("ERR_NETWORK", Undefined)
        /\ CallsOf(i) = {FirstCallOf(i)}
        /\ invs[i].pc = "done"

====
